---- MODULE Spec2Model ----
(***************************************************************************)
(* Model of the in-memory TTL cache of memCache.go: the Cache struct (a    *)
(* sync.RWMutex, two durations and a map of Item), its methods Set, Get,   *)
(* GetAll, Delete, Count, and the background goroutine GC with its two     *)
(* critical sections expiredKeys and clearItems.                           *)
(*                                                                         *)
(* Time is the value time.Now().UnixNano() would return; it is a variable  *)
(* that only the action Tick advances.  Every place where the code calls   *)
(* time.Now() reads that variable in the step that models the call.        *)
(***************************************************************************)
EXTENDS Integers, FiniteSets, TLC

\* ------------------------------------------------------------------ bounds
\* The clock runs from 0 to MaxClock.
MaxClock == 2
\* int64 (Item.Expiration, UnixNano) is modelled at a width of IntBits bits,
\* two's complement: the clock stays far below the largest value, a duration
\* may be as large as the largest value, exactly as with 64 bits.
IntBits == 4

MaxInt == 2 ^ (IntBits - 1) - 1

Keys == {"a", "b"}
Values == {"v1", "v2"}
Callers == {"c1", "c2"}
\* the duration argument of Set: zero (the default applies) or short
Durations == {0, 1}
\* and, for the caller of SpecWide, a negative one and the largest Duration too
WideDurations == Durations \cup {-1, MaxInt}
\* the arguments of New: <<defaultExpiration, cleanupInterval>>
Configs == {<<0, 1>>, <<2, 1>>, <<-1, 0>>, <<2, -1>>}

\* ------------------------------------------------------------------ values
NoItem == [absent |-> TRUE]
Nil == "nil"
None == "none"
NoEvent == [op |-> "none"]

VARIABLES
    defaultExpiration,  \* Cache.defaultExpiration
    cleanupInterval,    \* Cache.cleanupInterval
    items,              \* Cache.items: Keys -> Item or NoItem
    itemsNil,           \* whether the field Cache.items is the nil map
    readers,            \* the goroutines holding the RWMutex in shared mode
    writer,             \* the goroutine holding it in exclusive mode, or None
    clock,              \* time.Now().UnixNano()
    pc,                 \* each caller's position
    exp,                \* Set's local variable expiration
    event,              \* what the last step did: Set called with its duration, or a method returned with its result
    gcpc,               \* the position of the goroutine GC
    gcTimer,            \* the instant the pending time.After fires
    gckeys,             \* GC's local keys, the result of expiredKeys
    live,               \* history: the keys Set and neither deleted nor reclaimed since
    gcStale,            \* history: the keys a Set completed on since the sweep's scan
    expiredAtScan       \* history: the keys whose expiry had passed at the sweep's scan

vars == <<defaultExpiration, cleanupInterval, items, itemsNil, readers, writer,
          clock, pc, exp, event, gcpc, gcTimer, gckeys,
          live, gcStale, expiredAtScan>>

config == <<defaultExpiration, cleanupInterval, itemsNil>>
lock == <<readers, writer>>
gcvars == <<gcpc, gcTimer, gckeys>>
history == <<live, gcStale, expiredAtScan>>

GCProc == "gc"

\* ------------------------------------------------------------- arithmetic
\* An int64 sum that left the range wraps around.
WrapInt(x) ==
    IF x > MaxInt THEN x - 2 ^ IntBits ELSE x

\* time.Now().Add(duration).UnixNano()
AddUnixNano(now, duration) == WrapInt(now + duration)

\* --------------------------------------------------------------- the lock
\* sync.RWMutex: any number of readers or one writer.  In Spec, SpecWide and
\* SpecDistinct a goroutine blocked in Lock() or RLock() is a goroutine whose
\* acquiring step is not yet enabled, and the order in which blocked
\* goroutines are served is left open.  SpecFair follows the mutex further:
\* a goroutine inside Lock() is a pending writer, which keeps new readers
\* out; a reader that arrives then is blocked, and the next Unlock() lets
\* every blocked reader in.
PendingPcs == {"set_lock", "delete_lock"}
BlockedPcs == {"get_blocked", "getall_blocked", "count_blocked"}

\* a goroutine is inside Lock()
PendingWriter ==
    \/ \E p \in Callers : pc[p] \in PendingPcs
    \/ gcpc = "clear_lock"

\* the readers blocked in RLock(), which Unlock() lets in
BlockedReaders ==
    {p \in Callers : pc[p] \in BlockedPcs}
        \cup (IF gcpc = "scan_blocked" THEN {GCProc} ELSE {})

\* RLock admitting a reader while a writer holds the lock.
CanRLockAlways == TRUE

CanRLock == writer = None /\ ~PendingWriter
CanLock == writer = None /\ readers = {}

\* New starting the collector whatever the interval is.
GCStartedAlways(interval) == TRUE

\* Line 33: New starts the collector only for a positive cleanupInterval.
GCStarted(interval) == interval > 0

\* ------------------------------------------------------------------- New
Init ==
    /\ \E c \in Configs : defaultExpiration = c[1] /\ cleanupInterval = c[2]
    /\ items = [k \in Keys |-> NoItem]
    /\ itemsNil = FALSE
    /\ readers = {}
    /\ writer = None
    /\ clock = 0
    /\ pc = [p \in Callers |-> "idle"]
    /\ exp = [p \in Callers |-> 0]
    /\ event = NoEvent
    /\ gcpc = IF GCStarted(cleanupInterval) THEN "sleep" ELSE "off"
    /\ gcTimer = IF GCStarted(cleanupInterval) THEN cleanupInterval ELSE 0
    /\ gckeys = {}
    /\ live = {}
    /\ gcStale = {}
    /\ expiredAtScan = {}

\* The clock advances.  No call returns in this step.
Tick ==
    /\ clock < MaxClock
    /\ clock' = clock + 1
    /\ event' = NoEvent
    /\ UNCHANGED <<config, items, lock, pc, exp, gcvars, history>>

\* ------------------------------------------------------------ Cache.Set
\* Lines 39-47: the local expiration, from the duration argument, the default
\* and the clock at the call.
SetExpiration(duration, default, now) ==
    LET d == IF duration = 0 THEN default ELSE duration
    IN  IF d > 0 THEN AddUnixNano(now, d) ELSE 0

\* Lines 51-55: the Item stored.  The field Created is written here and read
\* nowhere in the program; the model leaves it out of the state.
NewItem(value, expiration) ==
    [Value |-> value, Expiration |-> expiration]

\* Lines 39-47, up to the call of c.Lock().  The arguments key and value are
\* not read before line 51: the model draws them there.  The local duration
\* is not read after line 47: the state keeps only expiration.
SetCall(p, d) ==
    /\ pc[p] = "idle"
    /\ pc' = [pc EXCEPT ![p] = "set"]
    /\ exp' = [exp EXCEPT ![p] = SetExpiration(d, defaultExpiration, clock)]
    /\ event' = [op |-> "SetCall", dur |-> d]
    /\ UNCHANGED <<config, items, lock, clock, gcvars, history>>

\* Line 49: c.Lock() returns.
SetLock(p) ==
    /\ pc[p] = "set"
    /\ CanLock
    /\ writer' = p
    /\ pc' = [pc EXCEPT ![p] = "set_cs"]
    /\ event' = NoEvent
    /\ UNCHANGED <<config, items, readers, clock, exp, gcvars, history>>

\* SetStore writing the Value alone into an entry that exists, and leaving
\* the Expiration of the entry it overwrites.
SetStoreValueOnly(p, k, v) ==
    /\ pc[p] = "set_cs"
    /\ items' = [items EXCEPT ![k] =
                    IF items[k] = NoItem THEN NewItem(v, exp[p])
                    ELSE NewItem(v, items[k].Expiration)]
    /\ writer' = None
    /\ readers' = BlockedReaders
    /\ event' = [op |-> "Set", key |-> k, res |-> v]
    /\ live' = live \cup {k}
    /\ gcStale' = IF gcpc \in {"clear", "clear_lock"} THEN gcStale \cup {k} ELSE gcStale
    /\ pc' = [pc EXCEPT ![p] = "idle"]
    /\ exp' = [exp EXCEPT ![p] = 0]
    /\ UNCHANGED <<config, clock, gcvars, expiredAtScan>>

\* Lines 51-56: the assignment to the map, the deferred Unlock, the return.
SetStore(p, k, v) ==
    /\ pc[p] = "set_cs"
    /\ items' = [items EXCEPT ![k] = NewItem(v, exp[p])]
    /\ writer' = None
    /\ readers' = BlockedReaders
    /\ event' = [op |-> "Set", key |-> k, res |-> v]
    /\ live' = live \cup {k}
    /\ gcStale' = IF gcpc \in {"clear", "clear_lock"} THEN gcStale \cup {k} ELSE gcStale
    /\ pc' = [pc EXCEPT ![p] = "idle"]
    /\ exp' = [exp EXCEPT ![p] = 0]
    /\ UNCHANGED <<config, clock, gcvars, expiredAtScan>>

\* ------------------------------------------------------------ Cache.Get
\* Expired with the comparison of line 69 turned into >=.
ExpiredAtDeadline(item, now) ==
    item.Expiration > 0 /\ now >= item.Expiration

\* Lines 68-72: the test that hides an entry.
Expired(item, now) ==
    item.Expiration > 0 /\ now > item.Expiration

\* GetResult without the test of lines 68-72.
GetResultNoExpiry(its, k, now) ==
    IF its[k] = NoItem THEN <<Nil, FALSE>> ELSE <<its[k].Value, TRUE>>

\* Lines 62-73: what Get returns.
GetResult(its, k, now) ==
    IF its[k] = NoItem THEN <<Nil, FALSE>>
    ELSE IF Expired(its[k], now) THEN <<Nil, FALSE>>
    ELSE <<its[k].Value, TRUE>>

\* Line 59: c.RLock() returns.  The argument key is read at line 62.
GetRLock(p) ==
    /\ pc[p] = "idle"
    /\ CanRLock
    /\ readers' = readers \cup {p}
    /\ pc' = [pc EXCEPT ![p] = "get_cs"]
    /\ event' = NoEvent
    /\ UNCHANGED <<config, items, writer, clock, exp, gcvars, history>>

\* GetReturn evicting the entry it finds expired.
GetReturnEvict(p, k) ==
    /\ pc[p] = "get_cs"
    /\ event' = [op |-> "Get", key |-> k, res |-> GetResult(items, k, clock)]
    /\ readers' = readers \ {p}
    /\ pc' = [pc EXCEPT ![p] = "idle"]
    /\ items' = IF items[k] # NoItem /\ Expired(items[k], clock)
                THEN [items EXCEPT ![k] = NoItem] ELSE items
    /\ UNCHANGED <<config, writer, clock, exp, gcvars, history>>

\* Lines 62-73, the deferred RUnlock, the return.
GetReturn(p, k) ==
    /\ pc[p] = "get_cs"
    /\ event' = [op |-> "Get", key |-> k, res |-> GetResult(items, k, clock)]
    /\ readers' = readers \ {p}
    /\ pc' = [pc EXCEPT ![p] = "idle"]
    /\ UNCHANGED <<config, items, writer, clock, exp, gcvars, history>>

\* --------------------------------------------------------- Cache.GetAll
\* GetAllResult leaving out the entries Get would hide.
GetAllUnexpired(its) ==
    [k \in {x \in Keys : its[x] # NoItem /\ ~Expired(its[x], clock)} |-> its[k].Value]

\* Lines 79-84: the fresh map of every key to its Value.
GetAllResult(its) ==
    [k \in {x \in Keys : its[x] # NoItem} |-> its[k].Value]

\* Line 77.
GetAllRLock(p) ==
    /\ pc[p] = "idle"
    /\ CanRLock
    /\ readers' = readers \cup {p}
    /\ pc' = [pc EXCEPT ![p] = "getall_cs"]
    /\ event' = NoEvent
    /\ UNCHANGED <<config, items, writer, clock, exp, gcvars, history>>

\* Lines 79-84, the deferred RUnlock, the return.
GetAllReturn(p) ==
    /\ pc[p] = "getall_cs"
    /\ event' = [op |-> "GetAll", res |-> GetAllResult(items)]
    /\ readers' = readers \ {p}
    /\ pc' = [pc EXCEPT ![p] = "idle"]
    /\ UNCHANGED <<config, items, writer, clock, exp, gcvars, history>>

\* --------------------------------------------------------- Cache.Delete
KeyNotFound == "Key not found"
Ok == "ok"

\* DeleteResult without the test of line 91.
DeleteResultAlwaysOk(its, k) == Ok

\* DeleteResult treating an expired entry as Get does.
DeleteResultHidesExpired(its, k) ==
    IF its[k] = NoItem \/ Expired(its[k], clock) THEN KeyNotFound ELSE Ok

\* Lines 91-95: the error returned.
DeleteResult(its, k) ==
    IF its[k] = NoItem THEN KeyNotFound ELSE Ok

\* DeleteItems emptying the map when it finds the key.
DeleteItemsAll(its, k) ==
    IF its[k] = NoItem THEN its ELSE [j \in Keys |-> NoItem]

\* Lines 91-94: the map after the call.
DeleteItems(its, k) ==
    IF its[k] = NoItem THEN its ELSE [its EXCEPT ![k] = NoItem]

\* Line 88.  The argument key is read at line 91.
DeleteLock(p) ==
    /\ pc[p] = "idle"
    /\ CanLock
    /\ writer' = p
    /\ pc' = [pc EXCEPT ![p] = "delete_cs"]
    /\ event' = NoEvent
    /\ UNCHANGED <<config, items, readers, clock, exp, gcvars, history>>

\* DeleteReturn without the deferred Unlock.
DeleteReturnNoUnlock(p, k) ==
    /\ pc[p] = "delete_cs"
    /\ items' = DeleteItems(items, k)
    /\ event' = [op |-> "Delete", key |-> k, res |-> DeleteResult(items, k),
                 expired |-> items[k] # NoItem /\ Expired(items[k], clock)]
    /\ live' = IF DeleteResult(items, k) = Ok THEN live \ {k} ELSE live
    /\ pc' = [pc EXCEPT ![p] = "idle"]
    /\ UNCHANGED <<config, lock, clock, exp, gcvars, gcStale, expiredAtScan>>

\* Lines 91-95, the deferred Unlock, the return.  The event reports the
\* error returned and whether the entry found had expired.
DeleteReturn(p, k) ==
    /\ pc[p] = "delete_cs"
    /\ items' = DeleteItems(items, k)
    /\ event' = [op |-> "Delete", key |-> k, res |-> DeleteResult(items, k),
                 expired |-> items[k] # NoItem /\ Expired(items[k], clock)]
    /\ writer' = None
    /\ readers' = BlockedReaders
    /\ live' = IF DeleteResult(items, k) = Ok THEN live \ {k} ELSE live
    /\ pc' = [pc EXCEPT ![p] = "idle"]
    /\ UNCHANGED <<config, clock, exp, gcvars, gcStale, expiredAtScan>>

\* ---------------------------------------------------------- Cache.Count
\* CountResult counting only the entries Get would return.
CountUnexpired(its) ==
    Cardinality({k \in Keys : its[k] # NoItem /\ ~Expired(its[k], clock)})

\* Line 101: len(c.items).
CountResult(its) ==
    Cardinality({k \in Keys : its[k] # NoItem})

\* Line 99.
CountRLock(p) ==
    /\ pc[p] = "idle"
    /\ CanRLock
    /\ readers' = readers \cup {p}
    /\ pc' = [pc EXCEPT ![p] = "count_cs"]
    /\ event' = NoEvent
    /\ UNCHANGED <<config, items, writer, clock, exp, gcvars, history>>

\* Lines 101-102, the deferred RUnlock.
CountReturn(p) ==
    /\ pc[p] = "count_cs"
    /\ event' = [op |-> "Count", res |-> CountResult(items)]
    /\ readers' = readers \ {p}
    /\ pc' = [pc EXCEPT ![p] = "idle"]
    /\ UNCHANGED <<config, items, writer, clock, exp, gcvars, history>>

\* ------------------------------------------------------------- Cache.GC
\* ExpiredKeys without the test i.Expiration > 0 of line 128.
ExpiredKeysNoSentinel(its, now) ==
    {k \in Keys : its[k] # NoItem /\ now > its[k].Expiration}

\* ExpiredKeys taking an entry at its deadline already.
ExpiredKeysAtDeadline(its, now) ==
    {k \in Keys : its[k] # NoItem /\ now >= its[k].Expiration /\ its[k].Expiration > 0}

\* Lines 127-131: the keys expiredKeys appends.
ExpiredKeys(its, now) ==
    {k \in Keys : its[k] # NoItem /\ now > its[k].Expiration /\ its[k].Expiration > 0}

\* ClearItems emptying the map.
ClearAll(its, keys) ==
    [k \in Keys |-> NoItem]

\* ClearItems stopping after the first key.
ClearFirst(its, keys) ==
    IF keys = {} THEN its
    ELSE [its EXCEPT ![CHOOSE k \in keys : TRUE] = NoItem]

\* ClearItems testing each entry again and sparing one that has not expired.
ClearItemsRecheck(its, keys) ==
    [k \in Keys |-> IF k \in keys /\ its[k] # NoItem /\ Expired(its[k], clock)
                    THEN NoItem ELSE its[k]]

\* ClearItems keeping the entries and lifting their deadline.
ClearItemsRenew(its, keys) ==
    [k \in Keys |-> IF k \in keys /\ its[k] # NoItem
                    THEN NewItem(its[k].Value, 0) ELSE its[k]]

\* Lines 138-140: the map after clearItems.
ClearItems(its, keys) ==
    [k \in Keys |-> IF k \in keys THEN NoItem ELSE its[k]]

\* GCWake leaving the loop when it finds the map empty.
GCWakeExitOnEmpty ==
    /\ gcpc = "sleep"
    /\ clock >= gcTimer
    /\ event' = NoEvent
    /\ gcpc' = IF itemsNil \/ (\A k \in Keys : items[k] = NoItem)
               THEN "returned" ELSE "scan"
    /\ UNCHANGED <<config, items, lock, clock, pc, exp, gcTimer, gckeys, history>>

\* Lines 111-115: the timer of time.After fires and c.items is tested for nil;
\* the loop returns if it is. The test is made before any lock is asked for.
GCWake ==
    /\ gcpc = "sleep"
    /\ clock >= gcTimer
    /\ event' = NoEvent
    /\ gcpc' = IF itemsNil THEN "returned" ELSE "scan"
    /\ UNCHANGED <<config, items, lock, clock, pc, exp, gcTimer, gckeys, history>>

\* Line 124: c.RLock() returns in expiredKeys.
GCScanRLock ==
    /\ gcpc = "scan"
    /\ event' = NoEvent
    /\ CanRLock
    /\ readers' = readers \cup {GCProc}
    /\ gcpc' = "scan_cs"
    /\ UNCHANGED <<config, items, writer, clock, pc, exp, gcTimer, gckeys, history>>

\* Lines 127-132 and 116: the scan, the deferred RUnlock, the test of len(keys);
\* with no key to clear the loop starts over at line 111 with a new timer.
GCScan ==
    /\ gcpc = "scan_cs"
    /\ event' = NoEvent
    /\ readers' = readers \ {GCProc}
    /\ gckeys' = ExpiredKeys(items, clock)
    /\ gcpc' = IF gckeys' = {} THEN "sleep" ELSE "clear"
    /\ gcTimer' = IF gckeys' = {} THEN clock + cleanupInterval ELSE gcTimer
    /\ expiredAtScan' = {k \in Keys : /\ items[k] # NoItem
                                      /\ items[k].Expiration > 0
                                      /\ items[k].Expiration < clock}
    /\ gcStale' = {}
    /\ UNCHANGED <<config, items, writer, clock, pc, exp, live>>

\* Line 136: c.Lock() returns in clearItems.
GCClearLock ==
    /\ gcpc = "clear"
    /\ event' = NoEvent
    /\ CanLock
    /\ writer' = GCProc
    /\ gcpc' = "clear_cs"
    /\ UNCHANGED <<config, items, readers, clock, pc, exp, gcTimer, gckeys, history>>

\* Lines 138-140, the deferred Unlock; the loop starts over at line 111.
\* The event reports the keys deleted and, of these, the keys whose entry had
\* not expired when it was deleted.
GCClear ==
    /\ gcpc = "clear_cs"
    /\ event' = [op |-> "clearItems", keys |-> gckeys,
                 fresh |-> {k \in gckeys : /\ items[k] # NoItem
                                           /\ ~Expired(items[k], clock)}]
    /\ items' = ClearItems(items, gckeys)
    /\ writer' = None
    /\ readers' = BlockedReaders
    /\ gcpc' = "sleep"
    /\ gcTimer' = clock + cleanupInterval
    /\ gckeys' = {}
    /\ live' = live \ gckeys
    /\ gcStale' = {}
    /\ expiredAtScan' = {}
    /\ UNCHANGED <<config, clock, pc, exp>>

\* ------------------------------------------------------- the whole system
CallerStep(p) ==
    \/ \E d \in Durations : SetCall(p, d)
    \/ SetLock(p)
    \/ \E k \in Keys, v \in Values : SetStore(p, k, v)
    \/ GetRLock(p)
    \/ \E k \in Keys : GetReturn(p, k)
    \/ GetAllRLock(p)
    \/ GetAllReturn(p)
    \/ DeleteLock(p)
    \/ \E k \in Keys : DeleteReturn(p, k)
    \/ CountRLock(p)
    \/ CountReturn(p)

GCStep ==
    \/ GCWake
    \/ GCScanRLock
    \/ GCScan
    \/ GCClearLock
    \/ GCClear

Next ==
    \/ Tick
    \/ \E p \in Callers : CallerStep(p)
    \/ GCStep

Spec == Init /\ [][Next]_vars

\* One caller alone with the sweep, its durations drawn from WideDurations.
WideCaller == "c1"

WideCallerStep ==
    \/ \E d \in WideDurations : SetCall(WideCaller, d)
    \/ SetLock(WideCaller)
    \/ \E k \in Keys, v \in Values : SetStore(WideCaller, k, v)
    \/ GetRLock(WideCaller)
    \/ \E k \in Keys : GetReturn(WideCaller, k)
    \/ DeleteLock(WideCaller)
    \/ \E k \in Keys : DeleteReturn(WideCaller, k)

NextWide ==
    \/ Tick
    \/ WideCallerStep
    \/ GCStep

SpecWide == Init /\ [][NextWide]_vars

\* Writers that set distinct keys: each caller Sets its own key only, and
\* reads and deletes any key.
OwnKey(p) == IF p = "c1" THEN "a" ELSE "b"

DistinctCallerStep(p) ==
    \/ \E d \in Durations : SetCall(p, d)
    \/ SetLock(p)
    \/ \E v \in Values : SetStore(p, OwnKey(p), v)
    \/ GetRLock(p)
    \/ \E k \in Keys : GetReturn(p, k)
    \/ GetAllRLock(p)
    \/ GetAllReturn(p)
    \/ DeleteLock(p)
    \/ \E k \in Keys : DeleteReturn(p, k)
    \/ CountRLock(p)
    \/ CountReturn(p)

NextDistinct ==
    \/ Tick
    \/ \E p \in Callers : DistinctCallerStep(p)
    \/ GCStep

SpecDistinct == Init /\ [][NextDistinct]_vars

\* ---------------------------------------------------------- fair scheduling
\* For the progress of the callers and of the collector the calls of Lock()
\* and RLock() and their returns are steps of their own, so that a goroutine
\* blocked on the lock is a state.  The data play no part: one key, one
\* value, one duration, after which the collector has an entry to clear.
FairKey == "a"
FairValue == "v1"
ReadMethods == {"get", "getall", "count"}

CsOf(m) ==
    IF m \in {"get", "get_blocked"} THEN "get_cs"
    ELSE IF m \in {"getall", "getall_blocked"} THEN "getall_cs"
    ELSE IF m \in {"count", "count_blocked"} THEN "count_cs"
    ELSE IF m = "set_lock" THEN "set_cs"
    ELSE "delete_cs"

BlockedOf(m) ==
    IF m = "get" THEN "get_blocked"
    ELSE IF m = "getall" THEN "getall_blocked"
    ELSE "count_blocked"

\* Lines 58-59, 76-77, 98-99: Get, GetAll or Count is entered and calls
\* c.RLock(), which returns at once unless a writer holds or awaits the lock.
ReadCall(p, m) ==
    /\ pc[p] = "idle"
    /\ event' = NoEvent
    /\ IF CanRLock
       THEN /\ readers' = readers \cup {p}
            /\ pc' = [pc EXCEPT ![p] = CsOf(m)]
       ELSE /\ pc' = [pc EXCEPT ![p] = BlockedOf(m)]
            /\ UNCHANGED readers
    /\ UNCHANGED <<config, items, writer, clock, exp, gcvars, history>>

\* Lines 59, 77, 99: c.RLock() returns to a reader that an Unlock() let in.
RLockResume(p) ==
    /\ pc[p] \in BlockedPcs
    /\ p \in readers
    /\ pc' = [pc EXCEPT ![p] = CsOf(pc[p])]
    /\ event' = NoEvent
    /\ UNCHANGED <<config, items, lock, clock, exp, gcvars, history>>

\* Line 49: Set calls c.Lock().
SetLockCall(p) ==
    /\ pc[p] = "set"
    /\ pc' = [pc EXCEPT ![p] = "set_lock"]
    /\ event' = NoEvent
    /\ UNCHANGED <<config, items, lock, clock, exp, gcvars, history>>

\* Lines 87-88: Delete is entered and calls c.Lock().
DeleteCall(p) ==
    /\ pc[p] = "idle"
    /\ pc' = [pc EXCEPT ![p] = "delete_lock"]
    /\ event' = NoEvent
    /\ UNCHANGED <<config, items, lock, clock, exp, gcvars, history>>

\* Lines 49, 88: c.Lock() returns.
LockReturn(p) ==
    /\ pc[p] \in PendingPcs
    /\ CanLock
    /\ writer' = p
    /\ pc' = [pc EXCEPT ![p] = CsOf(pc[p])]
    /\ event' = NoEvent
    /\ UNCHANGED <<config, items, readers, clock, exp, gcvars, history>>

\* Line 124: expiredKeys calls c.RLock().
GCRLockCall ==
    /\ gcpc = "scan"
    /\ event' = NoEvent
    /\ IF CanRLock
       THEN readers' = readers \cup {GCProc} /\ gcpc' = "scan_cs"
       ELSE gcpc' = "scan_blocked" /\ UNCHANGED readers
    /\ UNCHANGED <<config, items, writer, clock, pc, exp, gcTimer, gckeys, history>>

\* Line 124: c.RLock() returns to the collector that an Unlock() let in.
GCRLockResume ==
    /\ gcpc = "scan_blocked"
    /\ GCProc \in readers
    /\ gcpc' = "scan_cs"
    /\ event' = NoEvent
    /\ UNCHANGED <<config, items, lock, clock, pc, exp, gcTimer, gckeys, history>>

\* Line 136: clearItems calls c.Lock().
GCLockCall ==
    /\ gcpc = "clear"
    /\ gcpc' = "clear_lock"
    /\ event' = NoEvent
    /\ UNCHANGED <<config, items, lock, clock, pc, exp, gcTimer, gckeys, history>>

\* Line 136: c.Lock() returns.
GCLockReturn ==
    /\ gcpc = "clear_lock"
    /\ CanLock
    /\ writer' = GCProc
    /\ gcpc' = "clear_cs"
    /\ event' = NoEvent
    /\ UNCHANGED <<config, items, readers, clock, pc, exp, gcTimer, gckeys, history>>

\* The step p makes, once it is in a method, that waits for nobody.
Proceed(p) ==
    \/ SetLockCall(p)
    \/ RLockResume(p)
    \/ SetStore(p, FairKey, FairValue)
    \/ GetReturn(p, FairKey)
    \/ GetAllReturn(p)
    \/ DeleteReturn(p, FairKey)
    \/ CountReturn(p)

FairCallerStep(p) ==
    \/ SetCall(p, 1)
    \/ \E m \in ReadMethods : ReadCall(p, m)
    \/ DeleteCall(p)
    \/ LockReturn(p)
    \/ Proceed(p)

GCProceed ==
    \/ GCWake
    \/ GCRLockCall
    \/ GCRLockResume
    \/ GCScan
    \/ GCLockCall
    \/ GCClear

NextFair ==
    \/ Tick
    \/ \E p \in Callers : FairCallerStep(p)
    \/ GCProceed
    \/ GCLockReturn

\* The collector is started, and entries live for ever unless Set says
\* otherwise.
InitFair == Init /\ GCStarted(cleanupInterval) /\ defaultExpiration = 0

\* The scheduler runs a goroutine that can run: weak fairness of the steps
\* that wait for nobody.  Of the goroutines inside Lock() one gets the lock
\* when it is free, and sync.Mutex hands the lock to a waiter that was passed
\* over for long: strong fairness of the return of Lock().  Time passes and
\* the timer of time.After fires.  No caller has to call anything.
Fairness ==
    /\ WF_vars(Tick)
    /\ \A p \in Callers : WF_vars(Proceed(p)) /\ SF_vars(LockReturn(p))
    /\ WF_vars(GCProceed)
    /\ SF_vars(GCLockReturn)

SpecFair == InitFair /\ [][NextFair]_vars /\ Fairness

\* ------------------------------------------------------------- properties
\* The steps of the sweep and of the callers, as the properties name them.
IsSetOf(k) == event'.op = "Set" /\ event'.key = k
IsDeleteOf(k) == event'.op = "Delete" /\ event'.key = k
IsClear == gcpc = "clear_cs" /\ gcpc' = "sleep"
\* The sweep's delete step removes a key it selected before a Set completed on it.
IsStaleClearOf(k) == IsClear /\ k \in gckeys /\ k \in gcStale

\* C1 as stated: a Get issued in the state Set(k, v, d) returned in, for any
\* duration d, returns (v, true).
C1_RoundTrip ==
    [][event'.op = "Set" =>
          GetResult(items', event'.key, clock') = <<event'.res, TRUE>>]_vars

\* C1 amended: a Get issued in the state Set(k, v, d) returned in returns
\* (v, true), unless the expiration Set computed before it took the lock is
\* positive and the clock has passed it by the time Set returns: then the Get
\* returns (nil, false).
C1_RoundTripWithinTTL ==
    [][event'.op = "Set" =>
          GetResult(items', event'.key, clock') =
              IF exp[writer] > 0 /\ clock' > exp[writer]
              THEN <<Nil, FALSE>>
              ELSE <<event'.res, TRUE>>]_vars

\* Set has just returned with a positive expiration the clock has not passed,
\* and a Get of the key finds the value.
C1_Witness ==
    /\ event.op = "Set"
    /\ items[event.key].Expiration > 0
    /\ clock <= items[event.key].Expiration
    /\ GetResult(items, event.key, clock) = <<event.res, TRUE>>

\* C2: a Get of a present key whose positive expiresAt the clock has passed
\* returns (nil, false) and leaves the key in the map and in the count; a Get
\* of a present key whose positive expiresAt the clock has not passed returns
\* (value, true).
C2_ExpiryEnforced ==
    [][event'.op = "Get" =>
          LET k == event'.key
              it == items[k]
          IN  /\ (it # NoItem /\ it.Expiration > 0 /\ clock > it.Expiration) =>
                     /\ event'.res = <<Nil, FALSE>>
                     /\ items'[k] = it
                     /\ CountResult(items') = Cardinality({j \in Keys : items[j] # NoItem})
              /\ (it # NoItem /\ it.Expiration > 0 /\ clock <= it.Expiration) =>
                     event'.res = <<it.Value, TRUE>>]_vars

\* Get has just returned not-found for a key that is still in the map.
C2_Witness ==
    /\ event.op = "Get"
    /\ event.res = <<Nil, FALSE>>
    /\ items[event.key] # NoItem
    /\ CountResult(items) >= 1

\* C3 as stated: on a cache with defaultTTL 0, an entry stored by Set(k, v, 0)
\* stays readable, Get(k) = (v, true), across every step that is neither a
\* Set(k, ...) nor a Delete(k): ticks of the clock and sweeps included.
C3_NeverExpires ==
    [][\A k \in Keys :
          (/\ defaultExpiration = 0
           /\ items[k] # NoItem
           /\ items[k].Expiration = 0
           /\ ~IsSetOf(k)
           /\ ~IsDeleteOf(k))
          => GetResult(items', k, clock') = <<items[k].Value, TRUE>>]_vars

\* C3 amended: the same, except across the delete step of a sweep that had
\* selected k (its earlier, expired entry) before the Set completed.
C3_NeverExpiresButStaleSweep ==
    [][\A k \in Keys :
          (/\ defaultExpiration = 0
           /\ items[k] # NoItem
           /\ items[k].Expiration = 0
           /\ ~IsSetOf(k)
           /\ ~IsDeleteOf(k)
           /\ ~IsStaleClearOf(k))
          => GetResult(items', k, clock') = <<items[k].Value, TRUE>>]_vars

\* With defaultTTL 0 a never-expiring entry is read back at the last instant
\* of the clock, after a sweep has removed another key.
C3_Witness ==
    /\ defaultExpiration = 0
    /\ clock = MaxClock
    /\ event.op = "Get"
    /\ event.res[2] = TRUE
    /\ items[event.key].Expiration = 0
    /\ \E k \in Keys : k # event.key /\ k \notin live /\ gcTimer > cleanupInterval

\* C4: the expiration Set computes from its duration argument is the clock at
\* the call plus eff when eff > 0 and the sentinel 0 otherwise, where eff is
\* the duration when it is not 0 and defaultTTL when it is.
C4_ExpirationComputed ==
    [][event'.op = "SetCall" =>
          \A p \in Callers :
              (pc[p] = "idle" /\ pc'[p] = "set") =>
                  LET d == event'.dur
                      eff == IF d # 0 THEN d ELSE defaultExpiration
                  IN  exp'[p] = IF eff > 0 THEN clock + eff ELSE 0]_vars

\* C5: Delete(k) of a present key returns success and removes k; Delete(k) of
\* a key that is absent, as is every key not Set since it was last deleted or
\* reclaimed, returns KeyNotFound and leaves the map as it was.
C5_DeleteOnceThenError ==
    [][event'.op = "Delete" =>
          LET k == event'.key
          IN  /\ items[k] # NoItem =>
                     /\ event'.res = Ok
                     /\ items'[k] = NoItem
                     /\ k \notin live'
              /\ (items[k] = NoItem \/ k \notin live) =>
                     /\ event'.res = KeyNotFound
                     /\ items' = items]_vars

\* Delete has just failed on an absent key while the other key is in the map.
C5_Witness ==
    /\ event.op = "Delete"
    /\ event.res = KeyNotFound
    /\ items[event.key] = NoItem
    /\ \E k \in Keys : items[k] # NoItem

\* C6: an entry changes only by leaving the map or by the single step of one
\* Set, which stores that call's value together with that call's expiration;
\* a Get evaluates its entry in one step in which no Set holds the lock.
C6_OverwriteAtomic ==
    [][/\ event'.op = "Set" =>
              items'[event'.key] = [Value |-> event'.res, Expiration |-> exp[writer]]
       /\ \A k \in Keys :
              (items'[k] # items[k] /\ items'[k] # NoItem) => IsSetOf(k)
       /\ event'.op = "Get" =>
              /\ writer = None
              /\ items' = items
              /\ \A p \in Callers : pc[p] # "set_cs"]_vars

\* A Set has just returned while another Set, of a different expiration,
\* waits for the lock.
C6_Witness ==
    /\ event.op = "Set"
    /\ \E p \in Callers : pc[p] = "set" /\ exp[p] # items[event.key].Expiration

\* C7: Count() is the number of keys Set and neither deleted nor reclaimed
\* since, which is the number of keys in the map, expired ones included.
C7_CountIsSize ==
    /\ CountResult(items) = Cardinality(live)
    /\ live = {k \in Keys : items[k] # NoItem}
    /\ event.op = "Count" => event.res = Cardinality(live)

\* Count has just returned 2 while one of the keys is expired.
C7_Witness ==
    /\ event.op = "Count"
    /\ event.res = 2
    /\ \E k \in Keys : items[k].Expiration > 0 /\ clock > items[k].Expiration

\* C8: when a sweep ends, every key whose entry's positive expiresAt had
\* passed at the sweep's scan, and on which no Set completed since the scan,
\* is out of the map and of the count; and the timer of the next sweep is
\* set to fire within cleanupInterval of that moment.
C8_ReclaimedBySweep ==
    [][(gcpc \in {"scan_cs", "clear_cs"} /\ gcpc' = "sleep") =>
          LET due == IF gcpc = "scan_cs" THEN expiredAtScan'
                     ELSE expiredAtScan \ gcStale
          IN  /\ \A k \in due : items'[k] = NoItem
              /\ CountResult(items') <= Cardinality(Keys \ due)
              /\ gcTimer' <= clock' + cleanupInterval]_vars

\* A sweep has just removed both keys.
C8_Witness ==
    /\ event.op = "clearItems"
    /\ event.keys = Keys
    /\ \A k \in Keys : items[k] = NoItem

\* What a read of k shows: the pair Get returns and whether GetAll holds k.
Visible(its, k, now, v) ==
    /\ GetResult(its, k, now) = <<v, TRUE>>
    /\ k \in DOMAIN GetAllResult(its)
    /\ GetAllResult(its)[k] = v

\* C9 as stated, for writers that set distinct keys: a Set that returns with its TTL unexpired is visible at
\* once, and a visible entry stays visible across every step that is neither
\* a Set(k, ...), nor a Delete(k), nor the instant its expiresAt passes:
\* steps of other callers and of the sweep included.
C9_NoLostUpdate ==
    [][\A k \in Keys :
          /\ (IsSetOf(k) /\ ~(exp[writer] > 0 /\ clock' > exp[writer])) =>
                 Visible(items', k, clock', event'.res)
          /\ (/\ items[k] # NoItem
              /\ Visible(items, k, clock, items[k].Value)
              /\ ~IsSetOf(k)
              /\ ~IsDeleteOf(k)
              /\ ~(items[k].Expiration > 0 /\ clock' > items[k].Expiration))
             => Visible(items', k, clock', items[k].Value)]_vars

\* C9 amended: the same, except across the delete step of a sweep that had
\* selected k before the Set completed.
C9_NoLostUpdateButStaleSweep ==
    [][\A k \in Keys :
          /\ (IsSetOf(k) /\ ~(exp[writer] > 0 /\ clock' > exp[writer])) =>
                 Visible(items', k, clock', event'.res)
          /\ (/\ items[k] # NoItem
              /\ Visible(items, k, clock, items[k].Value)
              /\ ~IsSetOf(k)
              /\ ~IsDeleteOf(k)
              /\ ~IsStaleClearOf(k)
              /\ ~(items[k].Expiration > 0 /\ clock' > items[k].Expiration))
             => Visible(items', k, clock', items[k].Value)]_vars

\* A sweep has just removed one key and left the other, which is readable,
\* while a caller is in the middle of a Set.
C9_Witness ==
    /\ event.op = "clearItems"
    /\ \E k \in Keys : /\ k \notin event.keys
                       /\ items[k] # NoItem
                       /\ Visible(items, k, clock, items[k].Value)
    /\ \E p \in Callers : pc[p] = "set"

\* C10: GetAll() returns a mapping whose keys are exactly the keys in the map
\* and whose values are the stored values, expired entries included.
C10_GetAllUnfiltered ==
    [][event'.op = "GetAll" =>
          /\ DOMAIN event'.res = {k \in Keys : items[k] # NoItem}
          /\ \A k \in DOMAIN event'.res : event'.res[k] = items[k].Value
          /\ items' = items]_vars

\* GetAll has just returned a key that Get reports as not found.
C10_Witness ==
    /\ event.op = "GetAll"
    /\ \E k \in DOMAIN event.res :
           /\ items[k] # NoItem
           /\ GetResult(items, k, clock) = <<Nil, FALSE>>

\* C11: when the cache was built with cleanupInterval <= 0 the collector never
\* runs: it never leaves "off" and never holds the lock, a key leaves the map
\* only by a Delete of that key that returns no error, and so an entry that
\* has expired stays in the map until it is deleted or overwritten.
C11_DisabledReclamation ==
    [][cleanupInterval <= 0 =>
          /\ gcpc = "off" /\ gcpc' = "off"
          /\ GCProc \notin readers' /\ writer' # GCProc
          /\ \A k \in Keys :
                 /\ (items[k] # NoItem /\ items'[k] = NoItem)
                       => (IsDeleteOf(k) /\ event'.res = Ok)
                 /\ (items[k] # NoItem /\ ~IsDeleteOf(k) /\ ~IsSetOf(k))
                       => items'[k] = items[k]]_vars

\* Without a collector, both keys are in the map and expired at the end of
\* the clock, long after their deadline, and a Count has just reported them.
C11_Witness ==
    /\ cleanupInterval <= 0
    /\ gcpc = "off"
    /\ clock = MaxClock
    /\ \A k \in Keys : items[k] # NoItem /\ Expired(items[k], clock)
    /\ event.op = "Count" /\ event.res = Cardinality(Keys)

\* C12: Get, GetAll and Count never change the map: none of their steps
\* adds, removes or changes an entry, and a Get that finds its entry expired
\* leaves the entry where it is.
C12_ReadOnly ==
    [][(\/ event'.op \in {"Get", "GetAll", "Count"}
        \/ \E p \in Callers : pc'[p] \in {"get_cs", "getall_cs", "count_cs"}
                                /\ pc[p] = "idle")
          => items' = items /\ live' = live]_vars

\* A Get has just reported an expired entry as not found while the other
\* caller is reading too, and the entry is still in the map.
C12_Witness ==
    /\ event.op = "Get"
    /\ event.res = <<Nil, FALSE>>
    /\ items[event.key] # NoItem
    /\ \E p \in Callers : pc[p] \in {"get_cs", "getall_cs", "count_cs"}

\* The holders of the lock, and what each position in the code holds.
LockState ==
    /\ writer # None => readers = {}
    /\ \A p \in Callers :
          /\ writer = p <=> pc[p] \in {"set_cs", "delete_cs"}
          /\ p \in readers <=> pc[p] \in {"get_cs", "getall_cs", "count_cs"}
    /\ writer = GCProc <=> gcpc = "clear_cs"
    /\ GCProc \in readers <=> gcpc = "scan_cs"

\* The steps that read or write c.items: the return step of each method, the
\* scan and the clear of the collector; the map changes under a writer only.
AccessUnderLock ==
    /\ \A p \in Callers :
          /\ (pc[p] \in {"set_cs", "delete_cs"} /\ pc'[p] = "idle")
                => (writer = p /\ readers = {})
          /\ (pc[p] \in {"get_cs", "getall_cs", "count_cs"} /\ pc'[p] = "idle")
                => (p \in readers /\ writer = None /\ items' = items)
    /\ (gcpc = "scan_cs" /\ gcpc' # "scan_cs")
          => (GCProc \in readers /\ writer = None /\ items' = items)
    /\ IsClear => (writer = GCProc /\ readers = {})
    /\ items' # items => (writer # None /\ readers = {} /\ writer' = None)

\* The step of line 113, where the loop tests c.items for nil.
IsNilTest == gcpc = "sleep" /\ gcpc' # "sleep"

\* C13 as stated: a writer excludes every other holder, readers hold the lock
\* in shared mode only, and every read or write of the map by any operation,
\* the background loop included, is made by a holder of the lock.
C13_LockDiscipline ==
    /\ []LockState
    /\ [][AccessUnderLock]_vars
    /\ [][IsNilTest => (GCProc \in readers \/ writer = GCProc)]_vars

\* C13 amended: the same, but for the loop's test of c.items for nil, which
\* is made with no lock held, possibly while a caller holds the lock in
\* either mode; that step reads the field alone and changes nothing.
C13_LockDisciplineButNilTest ==
    /\ []LockState
    /\ [][AccessUnderLock]_vars
    /\ [][IsNilTest => (/\ GCProc \notin readers /\ writer # GCProc
                       /\ items' = items /\ lock' = lock)]_vars

\* The collector's scan and a Get hold the lock in shared mode together
\* while a Set waits for it, and the collector has tested c.items before.
C13_Witness ==
    /\ gcpc = "scan_cs"
    /\ \E p, q \in Callers : pc[p] = "get_cs" /\ pc[q] = "set"
    /\ Cardinality(readers) = 2
    /\ writer = None

\* The step in which the scan of expiredKeys is made and its lock released.
IsScan == gcpc = "scan_cs" /\ gcpc' # "scan_cs"

\* C14: the scan of a sweep selects exactly the keys whose entry has
\* 0 < Expiration < now, and changes nothing; with no key selected the sweep
\* goes back to sleep without taking the exclusive lock; otherwise the delete
\* phase removes exactly the selected keys and leaves every other entry.
C14_SweepSelectsAndDeletes ==
    [][/\ IsScan =>
            /\ gckeys' = {k \in Keys : /\ items[k] # NoItem
                                        /\ items[k].Expiration > 0
                                        /\ items[k].Expiration < clock}
            /\ items' = items
            /\ gcpc' = IF gckeys' = {} THEN "sleep" ELSE "clear"
       /\ writer' = GCProc => gckeys' # {}
       /\ IsClear =>
            /\ gckeys # {}
            /\ \A k \in Keys :
                   items'[k] = IF k \in gckeys THEN NoItem ELSE items[k]]_vars

\* A sweep has just removed one key and left the other, whose entry is at or
\* before its deadline.
C14_Witness ==
    /\ event.op = "clearItems"
    /\ Cardinality(event.keys) = 1
    /\ \E k \in Keys \ event.keys :
           items[k] # NoItem /\ items[k].Expiration >= clock

\* C15: the scan and the delete of a sweep are two critical sections, and
\* the delete does not look at the entries again: every key selected by the
\* scan is removed, an entry written by a Set that completed in between
\* included, even when that entry has not expired at the moment of removal;
\* and an entry removed unexpired is always one written in between.
C15_StaleSweepRemovesRefreshed ==
    [][IsClear =>
          \A k \in gckeys :
             /\ items'[k] = NoItem
             /\ k \in event'.fresh <=>
                    (items[k] # NoItem /\ ~Expired(items[k], clock))
             /\ k \in event'.fresh => k \in gcStale]_vars

\* The race has happened: the sweep has just removed a key that was selected
\* as expired and whose entry, written by a Set since, had not expired.
C15_Witness ==
    /\ event.op = "clearItems"
    /\ event.fresh # {}
    /\ \A k \in event.fresh : items[k] = NoItem /\ k \notin live

\* The positions at which a caller is in a method without the lock, and
\* those at which it holds the lock.
Waiting(p) == pc[p] \in {"set"} \cup PendingPcs \cup BlockedPcs
Holding(p) == pc[p] \in {"set_cs", "get_cs", "getall_cs", "delete_cs", "count_cs"}

\* The positions of the collector in a sweep.
Sweeping == gcpc \in {"scan", "scan_blocked", "scan_cs", "clear", "clear_lock", "clear_cs"}

\* A method returns from a step in which it holds the lock, with the lock
\* released, and before that it only waits; a sweep goes to sleep from its
\* scan or its clear, with the lock released, and gets the lock it asks for.
ThroughTheLock ==
    /\ \A p \in Callers :
          ((pc[p] # "idle" /\ pc'[p] = "idle")
              => (Holding(p) /\ p \notin readers' /\ writer' # p))
    /\ \A p \in Callers :
          ((Waiting(p) /\ pc'[p] # pc[p])
              => (pc'[p] \in PendingPcs \cup BlockedPcs \/ pc'[p] = CsOf(pc[p])))
    /\ ((Sweeping /\ gcpc' = "sleep")
          => (/\ gcpc \in {"scan_cs", "clear_cs"}
              /\ GCProc \notin readers'
              /\ writer' # GCProc))
    /\ ((gcpc = "clear_lock" /\ gcpc' # gcpc) => gcpc' = "clear_cs")
    /\ ((gcpc \in {"scan", "scan_blocked"} /\ gcpc' # gcpc)
          => gcpc' \in {"scan_blocked", "scan_cs"})

\* C16: under fair scheduling every method that was called returns, and it
\* returns from a step in which it holds the lock, with the lock released;
\* every sweep goes through its phases, each with the lock, and ends with the
\* lock released; and some step is possible in every reachable state.
C16_NoIndefiniteBlocking ==
    /\ \A p \in Callers : (Waiting(p) \/ Holding(p)) ~> (pc[p] = "idle")
    /\ Sweeping ~> (gcpc = "sleep")
    /\ [][ThroughTheLock]_vars
    /\ [](ENABLED <<NextFair>>_vars)

\* Contention: a Delete is inside Lock() behind a Get that holds the lock,
\* and the collector, which came to scan after the Delete, is blocked.
C16_Witness ==
    /\ gcpc = "scan_blocked"
    /\ \E p, q \in Callers : pc[p] = "delete_lock" /\ pc[q] = "get_cs"
    /\ readers = {q \in Callers : pc[q] = "get_cs"}

\* The order of the positions of the loop: asleep, then the scan, then asleep
\* again or the clear and asleep again, each time with a timer set anew.
LoopOrder ==
    /\ gcpc = "sleep" => gcpc' \in {"sleep", "scan"}
    /\ gcpc \in {"scan", "scan_blocked"}
          => gcpc' \in {"scan", "scan_blocked", "scan_cs"}
    /\ gcpc = "scan_cs" => gcpc' \in {"scan_cs", "sleep", "clear"}
    /\ gcpc \in {"clear", "clear_lock"}
          => gcpc' \in {"clear", "clear_lock", "clear_cs"}
    /\ gcpc = "clear_cs" => gcpc' \in {"clear_cs", "sleep"}
    /\ (Sweeping /\ gcpc' = "sleep") => gcTimer' = clock + cleanupInterval

\* C17: started by New with cleanupInterval > 0, the loop never returns: it
\* goes from asleep to sweeping and back whatever the callers do, the map
\* being empty or not; under fairness a sweep begins whenever the timer falls
\* within the time the clock covers, and every sweep ends asleep.
C17_LoopNeverStops ==
    /\ [](GCStarted(cleanupInterval) => (gcpc = "sleep" \/ Sweeping))
    /\ [][LoopOrder]_vars
    /\ (gcpc = "sleep" /\ gcTimer <= MaxClock) ~> Sweeping
    /\ Sweeping ~> (gcpc = "sleep" /\ gcTimer > clock)

\* The loop is in a later round, about to scan a map that a Delete has just
\* emptied: it was blocked behind the Delete, whose Unlock let it in.
C17_Witness ==
    /\ gcpc = "scan_blocked"
    /\ GCProc \in readers
    /\ gcTimer > cleanupInterval
    /\ \A k \in Keys : items[k] = NoItem
    /\ event.op = "Delete" /\ event.res = Ok

\* C18: a Delete of a key whose entry is in the map but has expired, so
\* that Get reports it as not found, returns no error and removes the entry;
\* whether Delete returns an error depends on the presence of the key alone.
C18_DeleteIgnoresExpiry ==
    [][event'.op = "Delete" =>
          LET k == event'.key IN
             /\ event'.res = Ok <=> items[k] # NoItem
             /\ event'.res = KeyNotFound <=> items[k] = NoItem
             /\ items'[k] = NoItem
             /\ event'.expired <=>
                    (items[k] # NoItem /\ GetResult(items, k, clock) = <<Nil, FALSE>>)
             /\ event'.expired => event'.res = Ok]_vars

\* A Delete has just removed, without error, an entry that had expired.
C18_Witness ==
    /\ event.op = "Delete"
    /\ event.expired
    /\ event.res = Ok
    /\ items[event.key] = NoItem

\* C19: the clock never goes back, and a key that Get reports as not found,
\* absent or expired, is reported as not found after every step but the
\* store of a Set of that key: no Delete, sweep, read or tick makes it
\* readable again.
C19_ExpiryPermanent ==
    [][/\ clock' >= clock
       /\ event'.op = "Get" => event'.res = GetResult(items, event'.key, clock)
       /\ \A k \in Keys :
              (GetResult(items, k, clock) = <<Nil, FALSE>> /\ ~IsSetOf(k))
                 => GetResult(items', k, clock') = <<Nil, FALSE>>]_vars

\* A Get has just reported as not found a key that expired, was swept in an
\* earlier round and has not been Set since.
C19_Witness ==
    /\ event.op = "Get"
    /\ event.res = <<Nil, FALSE>>
    /\ items[event.key] = NoItem
    /\ event.key \notin live
    /\ GCStarted(cleanupInterval) /\ gcTimer > cleanupInterval
    /\ clock = MaxClock

\* C20: the store of Set(k) and the return of Delete(k) leave the entry of
\* every other key as it was, presence, value and expiration; the delete
\* step of a sweep leaves the entry of every key it did not select.
C20_PerKeyFrame ==
    [][/\ \A k \in Keys :
              (IsSetOf(k) \/ IsDeleteOf(k))
                 => \A j \in Keys \ {k} : items'[j] = items[j]
       /\ IsClear => \A j \in Keys \ gckeys : items'[j] = items[j]]_vars

\* A Delete has just removed its key and the other key is still in the map.
C20_Witness ==
    /\ event.op = "Delete"
    /\ event.res = Ok
    /\ items[event.key] = NoItem
    /\ \E j \in Keys \ {event.key} : items[j] # NoItem

====
